---- MODULE Spec2Model ----
(***************************************************************************)
(* letterbox (src/main.go): batch letterboxing of images.                  *)
(*                                                                         *)
(* The dispatcher of main() is modelled as a state machine: the            *)
(* coordinating goroutine submits one closure per input path through a     *)
(* counting semaphore (a buffered channel of capacity `concurrency`),      *)
(* waits for the pool to drain and logs the report.  Each closure runs     *)
(* skip(), then either decrements the shared `total` (an unsynchronised    *)
(* read followed by a write) or runs convert(), which writes the           *)
(* destination file or makes the closure call log.Fatalf.                  *)
(*                                                                         *)
(* The file system is the modification time of every source and the        *)
(* existence, modification time and content of every destination.  The     *)
(* program being started again on the same command line (Rerun) and the    *)
(* user modifying a source between two runs (TouchSource) are environment  *)
(* actions.  The model follows a run and one re-run.  File times have the  *)
(* granularity of a run: a file written or modified during or right after  *)
(* the first run carries the time 2, one written by the re-run the time 3, *)
(* the sources present before the first run the time 1 and the             *)
(* destinations present before it the time 0 (older) or 2 (newer).         *)
(***************************************************************************)
EXTENDS Integers, Sequences, FiniteSets, TLC

\* ---- bounds of the model ----
MaxImages == 2      \* longest input list
MaxConc   == 2      \* largest -concurrency value
MaxAspect == 22     \* largest component of the -aspect string "A:B"
MaxWidth  == 22     \* widest source image
MaxHeight == 2      \* tallest source image
MaxDraw   == 4      \* largest aspect component, width and height where the pixels are followed

VARIABLES
    concurrency,    \* *concurrency (flag)
    force,          \* *force (flag)
    images,         \* images: the input list
    src,            \* path -> modification time of the source file
    dst,            \* path -> destination file: [ex, mt, data]
    status,         \* process: "running", "reported" (exit 0), "fatal" (exit 1),
                    \* "deadlock" (the Go runtime's fatal error, exit 2)
    next,           \* number of loop iterations of `for _, path := range images` done
    sem,            \* len(sem): messages in the semaphore channel
    waited,         \* the loop counter i of sem.Wait()
    total,          \* the shared counter `total`
    reported,       \* the count of the "Processed %d images" line, -1 before it
    pc,             \* task -> position of its closure
    path,           \* task -> the `path` captured by its closure
    tmp,            \* task -> the value of `total` read by `total = total - 1`
    chk,            \* task -> what skip() saw and returned
    nskip,          \* task -> times the closure took the skip branch
    nconv,          \* task -> times the closure called convert
    nwrite,         \* task -> times convert created the destination
    nopen,          \* destination files the process holds open
    rerun,          \* the program has been started a second time
    prevOk,         \* the previous run converted every input and every destination is
                    \* still strictly newer than its source
    call            \* the call of parseAspect and convert under study: inputs and results

vars == <<concurrency, force, images, src, dst, status, next, sem,
          waited, total, reported, pc, path, tmp, chk, nskip, nconv, nwrite, nopen,
          rerun, prevOk, call>>

Tasks == 1..MaxImages
Paths == 1..MaxImages

NoFile == [ex |-> FALSE, mt |-> 0, data |-> "none"]
NoChk  == [d |-> "none", s |-> "none", r |-> "none"]
Full == "full"          \* a complete JPEG
Partial == "partial"    \* a file jpeg.Encode did not finish

\* ---- float64 ----
\* A positive float64 is [m |-> the 53 bits of its significand, first bit 1,
\* e |-> its exponent]: the number m[1].m[2]...m[53] (binary) * 2^e.

Precision == 53

RECURSIVE Pow2(_)
Pow2(n) == IF n = 0 THEN 1 ELSE 2 * Pow2(n - 1)

\* the bits of a natural number, most significant first (none for 0)
RECURSIVE NatBits(_)
NatBits(n) == IF n = 0 THEN <<>> ELSE NatBits(n \div 2) \o <<n % 2>>

RECURSIVE BitsNat(_)
BitsNat(b) == IF b = <<>> THEN 0 ELSE 2 * BitsNat(SubSeq(b, 1, Len(b) - 1)) + b[Len(b)]

Zeros(n) == [i \in 1..n |-> 0]

\* b + 1 on a sequence of bits; one bit longer when b is all ones
RECURSIVE IncBits(_)
IncBits(b) ==
    IF b = <<>> THEN <<1>>
    ELSE IF b[Len(b)] = 0 THEN SubSeq(b, 1, Len(b) - 1) \o <<1>>
    ELSE IncBits(SubSeq(b, 1, Len(b) - 1)) \o <<0>>

\* round to nearest, ties to even: `keep` are the first 53 bits of an exact
\* result with exponent e, `half` tells how what was dropped compares with
\* half a unit in the last place (-1 below, 0 equal, 1 above)
RoundEven(keep, e, half) ==
    LET up == half = 1 \/ (half = 0 /\ keep[Precision] = 1)
        inc == IncBits(keep)
    IN  IF ~up THEN [m |-> keep, e |-> e]
        ELSE IF Len(inc) = Precision THEN [m |-> inc, e |-> e]
        ELSE [m |-> SubSeq(inc, 1, Precision), e |-> e + 1]

\* float64(n) for an integer 1 <= n < 2^31: exact
IntFloat64(n) ==
    LET b == NatBits(n) IN [m |-> b \o Zeros(Precision - Len(b)), e |-> Len(b) - 1]

\* the next n bits of the binary expansion of r / a, for 0 <= r < a
RECURSIVE DivBits(_, _, _)
DivBits(r, a, n) ==
    IF n = 0 THEN <<>>
    ELSE IF 2 * r >= a THEN <<1>> \o DivBits(2 * r - a, a, n - 1)
    ELSE <<0>> \o DivBits(2 * r, a, n - 1)

\* the remainder left after these n bits
RECURSIVE DivRem(_, _, _)
DivRem(r, a, n) ==
    IF n = 0 THEN r
    ELSE IF 2 * r >= a THEN DivRem(2 * r - a, a, n - 1)
    ELSE DivRem(2 * r, a, n - 1)

\* the least k with b * 2^k >= a
RECURSIVE NormShift(_, _)
NormShift(b, a) == IF b >= a THEN 0 ELSE 1 + NormShift(2 * b, a)

DivTruncFloat64(b, a) ==
    LET k == NormShift(b, a)
    IN  RoundEven(<<1>> \o DivBits(b * Pow2(k) - a, a, Precision - 1), 0 - k, -1)
\* b / a in float64 for the float64 values of integers 1 <= b <= a: the
\* correctly rounded quotient
DivFloat64(b, a) ==
    LET k == NormShift(b, a)
        r0 == b * Pow2(k) - a
        keep == <<1>> \o DivBits(r0, a, Precision - 1)
        r == DivRem(r0, a, Precision - 1)
        half == IF 2 * r > a THEN 1 ELSE IF 2 * r = a THEN 0 ELSE -1
    IN  RoundEven(keep, 0 - k, half)

\* the bits of w * (the integer with bits b[1..i]) + carry
RECURSIVE MulBits(_, _, _, _)
MulBits(b, i, w, carry) ==
    IF i = 0 THEN NatBits(carry)
    ELSE IF (w * b[i] + carry) % 2 = 1
         THEN MulBits(b, i - 1, w, (w * b[i] + carry) \div 2) \o <<1>>
         ELSE MulBits(b, i - 1, w, (w * b[i] + carry) \div 2) \o <<0>>

\* float64(w) * f for an integer 1 <= w < 2^30: the correctly rounded product
MulFloat64(w, f) ==
    LET p == MulBits(f.m, Precision, w, 0)
        d == Len(p) - Precision
        keep == SubSeq(p, 1, Precision)
        rest == SubSeq(p, Precision + 1, Len(p))
        half == IF d = 0 \/ rest[1] = 0 THEN -1
                ELSE IF \E j \in 2..d : rest[j] = 1 THEN 1 ELSE 0
    IN  RoundEven(keep, f.e + d, half)

\* int(f) for a positive float64 below 2^31: truncation
IntOfFloat64(f) == IF f.e < 0 THEN 0 ELSE BitsNat(SubSeq(f.m, 1, f.e + 1))

\* ---- parseAspect and the dimensions of convert ----

NoCall == [st |-> "none"]

\* if b > a { a, b = b, a }; return b / a   (a, b the parsed numbers)
parseAspect(x, y) ==
    LET a == IF y > x THEN y ELSE x
        b == IF y > x THEN x ELSE y
    IN  DivFloat64(b, a)

\* dw := sw
DestWidth(sw, sh) == sw

\* dh := int(float64(dw) * ratio)
DestHeight(dw, ratio) == IntOfFloat64(MulFloat64(dw, ratio))

\* A segment of strings.Split(s, ":") is [ok |-> TRUE, v |-> n] when it is
\* the decimal number n, [ok |-> FALSE, v |-> 0] when it is not a number.
Number(n) == [ok |-> TRUE, v |-> n]
NotANumber == [ok |-> FALSE, v |-> 0]
Segments(m) == {Number(n) : n \in 1..m} \cup {NotANumber}

\* the inputs: one segment, two segments, and two segments followed by a third
AspectStrings(m) ==
    {<<t>> : t \in Segments(m)}
      \cup {<<t, u>> : t \in Segments(m), u \in Segments(m)}
      \cup {<<t, u, Number(1)>> : t \in Segments(m), u \in Segments(m)}

NoRatio == [m |-> <<>>, e |-> 0]

\* parts[1] is there: the index expression does not panic
HasSecond(parts) == Len(parts) >= 2

\* parseAspect(s) on parts = strings.Split(s, ":"): "ok" with the ratio, "err"
\* (the error of strconv.ParseFloat), or "panic" (index out of range)
parseAspectString(parts) ==
    IF ~parts[1].ok THEN [res |-> "err", x |-> 0, y |-> 0, ratio |-> NoRatio]
    ELSE IF ~HasSecond(parts) THEN [res |-> "panic", x |-> 0, y |-> 0, ratio |-> NoRatio]
    ELSE IF ~parts[2].ok THEN [res |-> "err", x |-> 0, y |-> 0, ratio |-> NoRatio]
    ELSE [res |-> "ok", x |-> parts[1].v, y |-> parts[2].v,
          ratio |-> parseAspect(parts[1].v, parts[2].v)]

\* ---- image.Rectangle and draw.Draw ----

\* image.Rect(x0, y0, x1, y1): the corners put in order
Rect(x0, y0, x1, y1) ==
    [x0 |-> IF x0 > x1 THEN x1 ELSE x0, y0 |-> IF y0 > y1 THEN y1 ELSE y0,
     x1 |-> IF x0 > x1 THEN x0 ELSE x1, y1 |-> IF y0 > y1 THEN y0 ELSE y1]

ZR == [x0 |-> 0, y0 |-> 0, x1 |-> 0, y1 |-> 0]

Empty(r) == r.x0 >= r.x1 \/ r.y0 >= r.y1

\* r.Intersect(s)
Intersect(r, s) ==
    LET t == [x0 |-> IF r.x0 < s.x0 THEN s.x0 ELSE r.x0,
              y0 |-> IF r.y0 < s.y0 THEN s.y0 ELSE r.y0,
              x1 |-> IF r.x1 > s.x1 THEN s.x1 ELSE r.x1,
              y1 |-> IF r.y1 > s.y1 THEN s.y1 ELSE r.y1]
    IN  IF Empty(t) THEN ZR ELSE t

\* r.Add(image.Pt(dx, dy))
AddPt(r, dx, dy) == [x0 |-> r.x0 + dx, y0 |-> r.y0 + dy, x1 |-> r.x1 + dx, y1 |-> r.y1 + dy]

\* n / 2 of Go for n >= 0
Half(n) == n \div 2

DestRectAtTop(sw, sh, dw, dh) == Rect(Half(dw) - Half(sw), 0, Half(dw) + dw, Half(dh) + sh)
\* dr := image.Rect(dw/2-(sw/2), dh/2-(sh/2), dw/2+dw, dh/2+sh)
DestRect(sw, sh, dw, dh) ==
    Rect(Half(dw) - Half(sw), Half(dh) - Half(sh), Half(dw) + dw, Half(dh) + sh)

\* bg := color.Black; if white { bg = color.White }, as stored in an RGBA image
Background(white) == IF white THEN <<255, 255, 255, 255>> ELSE <<0, 0, 0, 255>>

\* draw.Draw(dst, dr, src, src.Bounds().Min, draw.Src): the clipping of
\* draw.DrawMask.  db, sb: bounds of dst and src; the source point is (0, 0).
\* Result: the rectangle of dst that is written and the source point of its
\* top left corner.
Clip(db, dr, sb) ==
    LET r == Intersect(Intersect(dr, db), AddPt(sb, dr.x0, dr.y0))
    IN  [r |-> r, spx |-> r.x0 - dr.x0, spy |-> r.y0 - dr.y0]

\* the canvas after the two draw.Draw calls, for a call record c: the pixel
\* at (x, y) is a copy of a source pixel or the background colour
CanvasPixel(c, x, y) ==
    IF ~Empty(c.r) /\ c.r.x0 <= x /\ x < c.r.x1 /\ c.r.y0 <= y /\ y < c.r.y1
    THEN [k |-> "src", x |-> x - c.r.x0 + c.spx, y |-> y - c.r.y0 + c.spy]
    ELSE [k |-> "bg", rgba |-> c.bg]

\* ---- skip(dir, path), as a function of the two os.Stat outcomes ----

BeforeOrEqual(a, b) == a <= b
\* fsrc.ModTime().Before(fdest.ModTime())
Before(a, b) == a < b

skipOnlyWhenNewer(ds, ss, smt, dmt) ==
    IF ds = "ok" /\ ss = "ok" /\ Before(smt, dmt) THEN "exist" ELSE "nil"
\* ds: outcome of os.Stat(dest): "ok", "notexist", "err"
\* ss: outcome of os.Stat(path): "ok", "err"
\* result: "nil", "exist" (errors.New("already exist")), "staterr"
skip(ds, ss, smt, dmt) ==
    IF ds = "notexist" THEN "nil"
    ELSE IF ds = "ok"
         THEN IF ss # "ok" THEN "staterr"
              ELSE IF Before(smt, dmt) THEN "exist"
              ELSE "nil"
         ELSE "staterr"

\* the outcomes os.Stat(dest) can have for a destination file
DestStat(f) == IF f.ex THEN {"ok", "err"} ELSE {"notexist", "err"}

IgnoresForce(r, f) == r # "nil"
\* if err := skip(*dir, path); err != nil && !(*force)
TakesSkipBranch(r, f) == r # "nil" /\ ~f

\* ---- the semaphore ----

AcquireNoBlock(s, n) == TRUE
\* s <- struct{}{} on a channel of capacity n goes through when it is not full
CanAcquire(s, n) == s < n

WaitOnce(w, n) == w >= 1 \/ n = 0
\* for i := 0; i < cap(s); i++ : the loop of Wait is over
WaitDone(w, n) == w = n

InFlight == {i \in Tasks : pc[i] \notin {"wait", "done"}}

RECURSIVE SumTo(_, _)
SumTo(f, n) == IF n = 0 THEN 0 ELSE f[n] + SumTo(f, n - 1)

\* ---- initial states ----

InitFS ==
    /\ src = [p \in Paths |-> 1]
    /\ dst \in [Paths -> {NoFile} \cup {[ex |-> TRUE, mt |-> t, data |-> Full] : t \in {0, 2}}]

StartRun ==
    /\ status = "running"
    /\ next = 0
    /\ sem = 0
    /\ waited = 0
    /\ total = Len(images)
    /\ reported = -1
    /\ pc = [i \in Tasks |-> "wait"]
    /\ path = [i \in Tasks |-> 0]
    /\ tmp = [i \in Tasks |-> 0]
    /\ chk = [i \in Tasks |-> NoChk]
    /\ nskip = [i \in Tasks |-> 0]
    /\ nconv = [i \in Tasks |-> 0]
    /\ nwrite = [i \in Tasks |-> 0]
    /\ nopen = 0

Init ==
    /\ concurrency \in 0..MaxConc
    /\ force \in BOOLEAN
    /\ \E n \in 0..MaxImages : images = [i \in 1..n |-> i]
    /\ InitFS
    /\ StartRun
    /\ rerun = FALSE
    /\ prevOk = FALSE
    /\ call = NoCall

\* ---- the coordinating goroutine ----

config == <<concurrency, force, images, call>>
hist   == <<rerun, prevOk>>
files  == <<src, dst>>

ClosureSharedPath(i) == images[Len(images)]
\* the path a closure captured: `path := path`
ClosurePath(i) == images[i]

RangeBackwards(n) == Len(images) - n
\* for _, path := range images: the index of the iteration after n iterations
RangeIndex(n) == n + 1

SubmitWithoutAcquire ==
    /\ status = "running"
    /\ next < Len(images)
    /\ next' = next + 1
    /\ pc' = [pc EXCEPT ![RangeIndex(next)] = "start"]
    /\ path' = [path EXCEPT ![RangeIndex(next)] = ClosurePath(RangeIndex(next))]
    /\ UNCHANGED <<config, files, hist, status, sem, waited, total, reported, tmp, chk,
                   nskip, nconv, nwrite, nopen>>
\* sem.Run(func() {...}): Acquire, then start the goroutine
Submit ==
    /\ status = "running"
    /\ next < Len(images)
    /\ CanAcquire(sem, concurrency)
    /\ sem' = sem + 1
    /\ next' = next + 1
    /\ pc' = [pc EXCEPT ![RangeIndex(next)] = "start"]
    /\ path' = [path EXCEPT ![RangeIndex(next)] = ClosurePath(RangeIndex(next))]
    /\ UNCHANGED <<config, files, hist, status, waited, total, reported, tmp, chk,
                   nskip, nconv, nwrite, nopen>>

\* sem.Wait(): one iteration of its loop
WaitAcquire ==
    /\ status = "running"
    /\ next = Len(images)
    /\ ~WaitDone(waited, concurrency)
    /\ CanAcquire(sem, concurrency)
    /\ sem' = sem + 1
    /\ waited' = waited + 1
    /\ UNCHANGED <<config, files, hist, status, next, total, reported, pc, path, tmp,
                   chk, nskip, nconv, nwrite, nopen>>

\* log.Printf("Processed %d images in %s\n", total, ...) and return from main
Report ==
    /\ status = "running"
    /\ next = Len(images)
    /\ WaitDone(waited, concurrency)
    /\ reported' = total
    /\ status' = "reported"
    /\ UNCHANGED <<config, files, hist, next, sem, waited, total, pc, path, tmp, chk,
                   nskip, nconv, nwrite, nopen>>

\* the main goroutine is blocked in a send on the semaphore channel: in
\* sem.Run's Acquire or in sem.Wait
MainBlocked ==
    /\ ~CanAcquire(sem, concurrency)
    /\ next < Len(images) \/ ~WaitDone(waited, concurrency)

\* the Go runtime finds every goroutine blocked (main in its send, no closure
\* alive to receive) and aborts: "fatal error: all goroutines are asleep -
\* deadlock!"
RuntimeDeadlock ==
    /\ status = "running"
    /\ MainBlocked
    /\ InFlight = {}
    /\ status' = "deadlock"
    /\ UNCHANGED <<config, files, hist, next, sem, waited, total, reported, pc, path,
                   tmp, chk, nskip, nconv, nwrite, nopen>>

\* ---- the closure of task i ----

\* log "Cropping", call skip(*dir, path), branch
SkipCheck(i) ==
    /\ status = "running"
    /\ pc[i] = "start"
    /\ \E ds \in DestStat(dst[path[i]]) :
       \E ss \in (IF ds = "ok" THEN {"ok", "err"} ELSE {"none"}) :
         LET r == skip(ds, ss, src[path[i]], dst[path[i]].mt) IN
         /\ chk' = [chk EXCEPT ![i] = [d |-> ds, s |-> ss, r |-> r]]
         /\ IF TakesSkipBranch(r, force)
            THEN /\ pc' = [pc EXCEPT ![i] = "read"]
                 /\ nskip' = [nskip EXCEPT ![i] = @ + 1]
            ELSE /\ pc' = [pc EXCEPT ![i] = "convert"]
                 /\ UNCHANGED nskip
    /\ UNCHANGED <<config, files, hist, status, next, sem, waited, total, reported,
                   path, tmp, nconv, nwrite, nopen>>

\* total = total - 1: the load of total
ReadTotal(i) ==
    /\ status = "running"
    /\ pc[i] = "read"
    /\ tmp' = [tmp EXCEPT ![i] = total]
    /\ pc' = [pc EXCEPT ![i] = "write"]
    /\ UNCHANGED <<config, files, hist, status, next, sem, waited, total, reported,
                   path, chk, nskip, nconv, nwrite, nopen>>

SkipFallsThrough == "convert"
\* return (after total = total - 1)
AfterSkip == "ret"

DecrementedTwice(v) == v - 2
\* total - 1, of the value loaded from total
Decremented(v) == v - 1

\* total = total - 1: the store to total, then return
WriteTotal(i) ==
    /\ status = "running"
    /\ pc[i] = "write"
    /\ total' = Decremented(tmp[i])
    /\ tmp' = [tmp EXCEPT ![i] = 0]
    /\ pc' = [pc EXCEPT ![i] = AfterSkip]
    /\ UNCHANGED <<config, files, hist, status, next, sem, waited, reported, path,
                   chk, nskip, nconv, nwrite, nopen>>

\* the modification time os.Create and jpeg.Encode give a file now
now == IF rerun THEN 3 ELSE 2

\* the file write(dst, filepath.Join(dir, path)) leaves behind
Written(p) == [ex |-> TRUE, mt |-> now, data |-> Full]
Truncated(p) == [ex |-> TRUE, mt |-> now, data |-> Partial]

\* write(): f, err := os.Create(path) opens the destination; neither return
\* after it (encode error, nil) closes f, and there is no deferred Close
OpenAfterWrite(n) == n + 1

\* convert(path, *dir, *white, ratio) returns nil
ConvertOk(i) ==
    /\ status = "running"
    /\ pc[i] = "convert"
    /\ dst' = [dst EXCEPT ![path[i]] = Written(path[i])]
    /\ nconv' = [nconv EXCEPT ![i] = @ + 1]
    /\ nwrite' = [nwrite EXCEPT ![i] = @ + 1]
    /\ nopen' = OpenAfterWrite(nopen)
    /\ pc' = [pc EXCEPT ![i] = "ret"]
    /\ UNCHANGED <<config, src, hist, status, next, sem, waited, total,
                   reported, path, tmp, chk, nskip>>

\* convert returns an error: "opening", "decoding", "creating" leave the
\* destination alone, "encoding" leaves a created, partly written file
ConvertErr(i) ==
    /\ status = "running"
    /\ pc[i] = "convert"
    /\ \E e \in {"opening", "decoding", "creating", "encoding"} :
         IF e = "encoding"
         THEN /\ dst' = [dst EXCEPT ![path[i]] = Truncated(path[i])]
              /\ nwrite' = [nwrite EXCEPT ![i] = @ + 1]
              /\ nopen' = OpenAfterWrite(nopen)
         ELSE UNCHANGED <<dst, nwrite, nopen>>
    /\ nconv' = [nconv EXCEPT ![i] = @ + 1]
    /\ pc' = [pc EXCEPT ![i] = "fatalf"]
    /\ UNCHANGED <<config, src, hist, status, next, sem, waited, total,
                   reported, path, tmp, chk, nskip>>

FatalfReturns(i) ==
    /\ pc' = [pc EXCEPT ![i] = "ret"]
    /\ UNCHANGED status
\* log.Fatalf("error converting %q: %s\n", path, err): os.Exit(1)
Fatalf(i) ==
    /\ status' = "fatal"
    /\ UNCHANGED pc

FatalExit(i) ==
    /\ status = "running"
    /\ pc[i] = "fatalf"
    /\ Fatalf(i)
    /\ UNCHANGED <<config, files, hist, next, sem, waited, total, reported, path, tmp,
                   chk, nskip, nconv, nwrite, nopen>>

ReleaseKeepsSlot(i) ==
    /\ status = "running"
    /\ pc[i] = "ret"
    /\ pc' = [pc EXCEPT ![i] = "done"]
    /\ UNCHANGED <<config, files, hist, status, next, sem, waited, total, reported,
                   path, tmp, chk, nskip, nconv, nwrite, nopen>>
\* defer s.Release(): <-s once the closure has returned
Release(i) ==
    /\ status = "running"
    /\ pc[i] = "ret"
    /\ sem' = sem - 1
    /\ pc' = [pc EXCEPT ![i] = "done"]
    /\ UNCHANGED <<config, files, hist, status, next, waited, total, reported, path,
                   tmp, chk, nskip, nconv, nwrite, nopen>>

\* ---- the environment ----

\* the user modifies a source file between two runs
TouchSource(p) ==
    /\ status # "running"
    /\ ~rerun
    /\ p \in 1..Len(images)
    /\ src[p] # now
    /\ src' = [src EXCEPT ![p] = now]
    /\ UNCHANGED <<config, dst, rerun, prevOk, status, next, sem, waited, total,
                   reported, pc, path, tmp, chk, nskip, nconv, nwrite, nopen>>

\* every input was converted by the run that just ended, and every destination
\* is strictly newer than its source (no source was modified since)
AllConverted ==
    /\ status = "reported"
    /\ \A i \in 1..Len(images) :
         /\ nconv[i] = 1
         /\ dst[images[i]].ex
         /\ src[images[i]] < dst[images[i]].mt

\* the program is started again with the same command line after a run that
\* ended with its report: main() up to log.Printf("Processing %d images\n", total)
Rerun ==
    /\ status = "reported"
    /\ ~rerun
    /\ rerun' = TRUE
    /\ prevOk' = (AllConverted /\ ~force)
    /\ UNCHANGED <<config, files>>
    /\ status' = "running"
    /\ next' = 0
    /\ sem' = 0
    /\ waited' = 0
    /\ total' = Len(images)
    /\ reported' = -1
    /\ pc' = [i \in Tasks |-> "wait"]
    /\ path' = [i \in Tasks |-> 0]
    /\ tmp' = [i \in Tasks |-> 0]
    /\ chk' = [i \in Tasks |-> NoChk]
    /\ nskip' = [i \in Tasks |-> 0]
    /\ nconv' = [i \in Tasks |-> 0]
    /\ nwrite' = [i \in Tasks |-> 0]
    /\ nopen' = 0

\* the steps of one run of the program
NextRun ==
    \/ Submit
    \/ WaitAcquire
    \/ Report
    \/ RuntimeDeadlock
    \/ \E i \in Tasks : SkipCheck(i)
    \/ \E i \in Tasks : ReadTotal(i)
    \/ \E i \in Tasks : WriteTotal(i)
    \/ \E i \in Tasks : ConvertOk(i)
    \/ \E i \in Tasks : ConvertErr(i)
    \/ \E i \in Tasks : FatalExit(i)
    \/ \E i \in Tasks : Release(i)

Next ==
    \/ NextRun
    \/ \E p \in Paths : TouchSource(p)
    \/ Rerun

Spec == Init /\ [][Next]_vars

\* one run under a fair scheduler: the main goroutine and every closure
\* keep taking their steps, every skip check and every convert returns
Fairness ==
    /\ WF_vars(Submit)
    /\ WF_vars(WaitAcquire)
    /\ WF_vars(Report)
    /\ WF_vars(RuntimeDeadlock)
    /\ \A i \in Tasks :
         /\ WF_vars(SkipCheck(i))
         /\ WF_vars(ReadTotal(i))
         /\ WF_vars(WriteTotal(i))
         /\ WF_vars(ConvertOk(i) \/ ConvertErr(i))
         /\ WF_vars(FatalExit(i))
         /\ WF_vars(Release(i))

SpecFair == Init /\ [][NextRun]_vars /\ Fairness

\* ---- one call of parseAspect and convert, the dispatcher idle ----

InitConvert ==
    /\ concurrency = 0
    /\ force = FALSE
    /\ images = <<>>
    /\ src = [p \in Paths |-> 1]
    /\ dst = [p \in Paths |-> NoFile]
    /\ StartRun
    /\ rerun = FALSE
    /\ prevOk = FALSE
    /\ call = NoCall

dispatcher == <<concurrency, force, images, src, dst, status, next, sem, waited, total,
                reported, pc, path, tmp, chk, nskip, nconv, nwrite, nopen, rerun, prevOk>>

\* ratio, err := parseAspect(*aspect), for the aspect strings with components
\* up to m; on an error main calls log.Fatalf
ParseAspectUpTo(m) ==
    /\ call.st = "none"
    /\ \E parts \in AspectStrings(m) :
         LET p == parseAspectString(parts)
         IN  call' = [st |-> IF p.res = "ok" THEN "parsed" ELSE "failed", parts |-> parts,
                      res |-> p.res, x |-> p.x, y |-> p.y, ratio |-> p.ratio]
    /\ UNCHANGED dispatcher

\* convert(path, dir, white, ratio) on a decoded image of sw x sh pixels, sw
\* up to mw and sh up to mh, up to the second draw.Draw
ConvertUpTo(mw, mh) ==
    /\ call.st = "parsed"
    /\ \E sw \in 1..mw, sh \in 1..mh, white \in BOOLEAN :
       \E dw \in {DestWidth(sw, sh)} :
       \E dh \in {DestHeight(dw, call.ratio)} :
       \E cl \in {Clip(Rect(0, 0, dw, dh), DestRect(sw, sh, dw, dh), Rect(0, 0, sw, sh))} :
             call' = [st |-> "converted", parts |-> call.parts, res |-> call.res,
                      x |-> call.x, y |-> call.y, ratio |-> call.ratio,
                      sw |-> sw, sh |-> sh, white |-> white, dw |-> dw, dh |-> dh,
                      bg |-> Background(white), r |-> cl.r, spx |-> cl.spx, spy |-> cl.spy]
    /\ UNCHANGED dispatcher

ParseAspect == ParseAspectUpTo(MaxAspect)

Convert == ConvertUpTo(MaxWidth, MaxHeight)

NextConvert == ParseAspect \/ Convert

SpecConvert == InitConvert /\ [][NextConvert]_vars

\* ---- the same with small images, to follow every pixel ----

ParseSmall == ParseAspectUpTo(MaxDraw)

ConvertSmall == ConvertUpTo(MaxDraw, MaxDraw)

NextDraw == ParseSmall \/ ConvertSmall

SpecDraw == InitConvert /\ [][NextDraw]_vars

TypeOK ==
    /\ concurrency \in 0..MaxConc
    /\ sem \in 0..concurrency
    /\ waited \in 0..concurrency
    /\ next \in 0..Len(images)
    /\ status \in {"running", "reported", "fatal", "deadlock"}
    /\ nopen \in 0..(2 * MaxImages)
    /\ pc \in [Tasks -> {"wait", "start", "read", "write", "convert", "fatalf", "ret", "done"}]

Submitted == 1..Len(images)

\* ---- C1 ----
\* C1: in every reachable state the number of tasks in flight (admitted by
\* the semaphore and not yet finished) is at most the configured concurrency.
C1_BoundedInFlight == Cardinality(InFlight) <= concurrency

\* the pool is saturated while the coordinator still has a task to submit
C1_Witness ==
    /\ concurrency >= 1
    /\ Cardinality(InFlight) = concurrency
    /\ next < Len(images)

\* ---- C2 ----
\* C2: the report is logged only when every task has been submitted and has
\* completed.
C2_ReportAfterAll ==
    status = "reported" => /\ next = Len(images)
                           /\ \A i \in Submitted : pc[i] = "done"

\* a report after two tasks ran in a pool of two
C2_Witness ==
    /\ status = "reported"
    /\ Len(images) >= 2
    /\ concurrency >= 2

\* ---- C3 ----
\* C3: the count reported by a run without fatal error is the number of inputs
\* minus the number of tasks that took the skip branch.
C3_NoLostDecrement ==
    status = "reported" => reported = Len(images) - SumTo(nskip, MaxImages)

\* ---- C4 ----
\* C4: without stat errors, skip() says: destination absent -> process;
\* destination present and source strictly older -> skip; destination present
\* and source as new or newer -> process.  Without force the closure branches
\* on exactly that.
C4_Step(i) ==
    LET f == dst[path[i]]
        s == src[path[i]]
        c == chk'[i]
    IN  (c.d # "err" /\ c.s # "err") =>
           /\ (~f.ex => c.r = "nil")
           /\ (f.ex /\ s < f.mt => c.r = "exist")
           /\ (f.ex /\ s >= f.mt => c.r = "nil")
           /\ (~force => (pc'[i] = "convert" <=> c.r = "nil"))
           /\ (~force => (pc'[i] = "read" <=> c.r # "nil"))

C4_SkipDecision ==
    [][\A i \in Tasks :
         (status = "running" /\ pc[i] = "start" /\ pc'[i] # "start") => C4_Step(i)]_vars

\* a destination exactly as old as its source is processed again
C4_Witness ==
    \E i \in Tasks :
        /\ pc[i] = "convert"
        /\ ~force
        /\ chk[i].d = "ok" /\ chk[i].s = "ok"
        /\ dst[path[i]].ex
        /\ dst[path[i]].mt = src[path[i]]

\* ---- C5 ----
\* C5: with force every task runs convert whatever skip() returns, total is
\* never decremented, and the report gives the full number of inputs.
C5_Force ==
    force =>
        /\ total = Len(images)
        /\ \A i \in Tasks :
             /\ nskip[i] = 0
             /\ pc[i] \notin {"read", "write"}
             /\ pc[i] \in {"fatalf", "ret", "done"} => nconv[i] = 1
        /\ status = "reported" => reported = Len(images)

\* a forced run reported after skip() returned "already exist" for one task
\* and a stat error for another
C5_Witness ==
    /\ force
    /\ status = "reported"
    /\ \E i, j \in Tasks : chk[i].r = "exist" /\ chk[j].r = "staterr"

C7_RerunIdempotent ==
    (rerun /\ prevOk /\ ~force /\ status = "reported") =>
        /\ reported = 0
        /\ \A i \in Submitted : nskip[i] = 1 /\ nconv[i] = 0 /\ nwrite[i] = 0

\* ---- C8 ----
\* C8: every task takes the skip branch or is converted, at most once in
\* all; when the report is logged each has done exactly one of the two, every
\* converted input has its destination written in full, and a run
\* that skipped nothing reports the number of inputs.
C8_ExactlyOnce ==
    /\ \A i \in Tasks : nskip[i] + nconv[i] <= 1
    /\ status = "reported" =>
         /\ \A i \in Submitted :
              /\ nskip[i] + nconv[i] = 1
              /\ nconv[i] = 1 =>
                   /\ nwrite[i] = 1
                   /\ dst[images[i]].ex
                   /\ dst[images[i]].data # Partial
         /\ (\A i \in Submitted : nskip[i] = 0) => reported = Len(images)

\* two fresh inputs, concurrency 1: two files written, report of 2
C8_Witness ==
    /\ status = "reported"
    /\ concurrency = 1
    /\ Len(images) = 2
    /\ reported = 2
    /\ \A i \in Submitted : chk[i].d = "notexist" /\ nwrite[i] = 1 /\ dst[images[i]].ex

\* ---- C9 ----
\* C9: from the moment a task takes the skip branch, its destination file
\* (existence, modification time, content) is not changed and convert and
\* write are not called for it.
C9_SkipLeavesDest ==
    [][\A i \in Tasks :
         (nskip'[i] >= 1 /\ rerun' = rerun) =>
            /\ dst'[path'[i]] = dst[path'[i]]
            /\ nconv'[i] = 0
            /\ nwrite'[i] = 0]_vars

\* a task skipped an existing, newer destination and has returned
C9_Witness ==
    \E i \in Tasks :
        /\ nskip[i] = 1
        /\ pc[i] = "done"
        /\ chk[i].r = "exist"
        /\ dst[path[i]].ex

C11_NeverCrops ==
    call.st = "converted" =>
        /\ \A sx \in 0..(call.sw - 1), sy \in 0..(call.sh - 1) :
             \E x \in 0..(call.dw - 1), y \in 0..(call.dh - 1) :
                 LET p == CanvasPixel(call, x, y)
                 IN  p.k = "src" /\ p.x = sx /\ p.y = sy
        /\ call.dw = call.sw
        /\ \E top \in 0..call.dh :
             \A x \in 0..(call.dw - 1), y \in 0..(call.dh - 1) :
                 LET p == CanvasPixel(call, x, y)
                 IN  IF top <= y /\ y < top + call.sh
                     THEN p.k = "src" /\ p.x = x /\ p.y = y - top
                     ELSE p.k = "bg"

\* ---- C16 ----
\* C16: when the source is not higher than the canvas, it is drawn at left 0
\* and top = dh/2 - sh/2 and fills exactly the rows top .. top+sh-1; every
\* pixel of every other row has the background colour, (0,0,0,255) for black
\* and (255,255,255,255) for white; the two bars differ in height by at most 1.
C16_Centred ==
    (call.st = "converted" /\ call.sh <= call.dh) =>
        LET top == (call.dh \div 2) - (call.sh \div 2)
            bottom == call.dh - (top + call.sh)
        IN  /\ \A x \in 0..(call.dw - 1), y \in 0..(call.dh - 1) :
                 LET p == CanvasPixel(call, x, y)
                 IN  IF top <= y /\ y < top + call.sh
                     THEN p.k = "src" /\ p.x = x /\ p.y = y - top
                     ELSE /\ p.k = "bg"
                          /\ p.rgba = IF call.white THEN <<255, 255, 255, 255>>
                                                     ELSE <<0, 0, 0, 255>>
            /\ top >= 0 /\ bottom >= 0
            /\ top - bottom <= 1 /\ bottom - top <= 1

\* a white canvas with a source lower than it and bars of unequal height
C16_Witness ==
    /\ call.st = "converted"
    /\ call.sh < call.dh
    /\ call.white
    /\ (call.dh - call.sh) % 2 = 1
    /\ call.r.y0 > 0

\* ---- C12 ----

\* b + n for a sequence of bits b (most significant first) and a natural n
RECURSIVE AddNat(_, _, _)
AddNat(b, i, n) ==
    IF n = 0 THEN b
    ELSE IF i = 0 THEN NatBits(n) \o b
    ELSE AddNat([b EXCEPT ![i] = (b[i] + n) % 2], i - 1, (b[i] + n) \div 2)

\* a <= b for two sequences of bits read as naturals
LeqBits(a, b) ==
    LET n == IF Len(a) > Len(b) THEN Len(a) ELSE Len(b)
        pa == Zeros(n - Len(a)) \o a
        pb == Zeros(n - Len(b)) \o b
    IN  pa = pb \/ \E i \in 1..n : pa[i] < pb[i] /\ \A j \in 1..(i - 1) : pa[j] = pb[j]

\* the float64 f, of exponent at most 0, is within half a unit in its last
\* place of the rational lo / hi:  |2 * M * hi - lo * 2^(53 - e)| <= hi  for
\* f = M * 2^(e - 52)
NearestTo(f, lo, hi) ==
    LET p == MulBits(f.m, Precision, hi, 0) \o <<0>>
        t == NatBits(lo) \o Zeros(Precision - f.e)
    IN  /\ LeqBits(t, AddNat(p, Len(p), hi))
        /\ LeqBits(p, AddNat(t, Len(t), hi))

\* 0 < f <= 1
InUnitInterval(f) ==
    /\ Len(f.m) = Precision
    /\ f.m[1] = 1
    /\ f.e <= 0
    /\ f.e = 0 => f.m = <<1>> \o Zeros(Precision - 1)

C13_RejectsMalformed ==
    (/\ call.st \in {"parsed", "failed"}
     /\ \/ Len(call.parts) # 2
        \/ \E k \in 1..Len(call.parts) : ~call.parts[k].ok) =>
        /\ call.res = "err"
        /\ call.ratio = NoRatio

\* ---- C14 ----
\* C14: tasks get their semaphore slot in the order of the input list: task
\* j holds or has held a slot only if every task before it in the list does
\* or did.  Completion is in any order: with two slots a later task can
\* finish before an earlier one.
C14_AdmissionOrder ==
    \A i \in Submitted, j \in Submitted :
        (i < j /\ pc[j] # "wait") => pc[i] # "wait"

\* two slots; the second task has returned while the first is still running
C14_Witness ==
    /\ concurrency >= 2
    /\ Len(images) >= 2
    /\ pc[2] = "done"
    /\ pc[1] \notin {"wait", "done"}

\* ---- C15 ----
\* the skip check of task i ended in a stat error: os.Stat of the destination
\* failed other than with not-found, or the destination is there and os.Stat
\* of the source failed
StatError(i) == chk[i].d = "err" \/ (chk[i].d = "ok" /\ chk[i].s = "err")

C17_WriteCloses ==
    (status \in {"running", "reported"} /\ \A i \in Tasks : pc[i] \in {"wait", "done"}) =>
        nopen = 0

\* ---- C18 ----
\* C18: in every reachable state total is at least len(images) minus the
\* number of tasks that have taken the skip branch so far, and at most
\* len(images); so the reported count is never negative and never below the
\* number of images converted.
C18_TotalBounds ==
    /\ Len(images) - SumTo(nskip, MaxImages) <= total
    /\ total <= Len(images)
    /\ status = "reported" =>
          /\ reported >= 0
          /\ reported >= SumTo(nconv, MaxImages)
          /\ reported >= Len(images) - SumTo(nskip, MaxImages)
          /\ reported <= Len(images)

\* a report that over-counts: two tasks skipped, one decrement lost
C18_Witness ==
    /\ status = "reported"
    /\ SumTo(nskip, MaxImages) >= 2
    /\ reported > Len(images) - SumTo(nskip, MaxImages)

\* ---- C19 ----
\* C19: with concurrency N >= 1, when every skip check and convert returns
\* and the goroutines are scheduled fairly, the run ends with the report or
\* with the fatal exit; main and the closures never deadlock on the
\* semaphore, every slot taken being given back when its task returns, on
\* the skip branch too.
C19_Terminates ==
    concurrency >= 1 =>
        /\ <>(status \in {"reported", "fatal"})
        /\ [](status # "deadlock")
        /\ [](sem = Cardinality(InFlight) + waited)

\* a pool smaller than the list, a skipped task, and the report reached
C19_Witness ==
    /\ concurrency >= 1
    /\ Len(images) > concurrency
    /\ status = "reported"
    /\ \E i \in Tasks : nskip[i] = 1 /\ pc[i] = "done"

\* ---- C20 ----
\* no task was ever started and nothing was reported
NothingStarted ==
    /\ next = 0
    /\ \A i \in Tasks : pc[i] = "wait" /\ nskip[i] = 0 /\ nconv[i] = 0
    /\ reported = -1

\* C20 as stated: with concurrency 0 and a non-empty list the first
\* submission blocks forever (the process stays running, no task started, no
\* report); with concurrency 0 and an empty list the run reports 0 at once.
C20_BlocksForever ==
    concurrency = 0 =>
        /\ Len(images) > 0 => (status = "running" /\ NothingStarted)
        /\ Len(images) = 0 => \/ (status = "running" /\ NothingStarted)
                               \/ (status = "reported" /\ reported = 0)

\* C20, amended: with concurrency 0 and a non-empty list the first
\* submission can never go through: no task is ever started and the report
\* is never reached; the process does not hang, the Go runtime ends it with
\* its deadlock error.  With concurrency 0 and an empty list the first and
\* only step of the run is the report of 0 images.
C20_ZeroCapacity ==
    concurrency = 0 =>
        /\ [](Len(images) > 0 => (status \in {"running", "deadlock"} /\ NothingStarted))
        /\ Len(images) > 0 => <>[](status = "deadlock")
        /\ [](Len(images) = 0 => \/ (status = "running" /\ NothingStarted)
                                  \/ (status = "reported" /\ reported = 0))
        /\ Len(images) = 0 => <>[](status = "reported")

\* capacity 0, an image to process, and the run ended by the runtime
C20_Witness ==
    /\ concurrency = 0
    /\ Len(images) > 0
    /\ status = "deadlock"
    /\ NothingStarted

====
